---- MODULE Spec2Model ----
(***************************************************************************)
(* sizetree (src/main.rs): the recursive size aggregation get_size, the    *)
(* size formatter format_size, and the depth-limited, size-filtered,      *)
(* sorted tree renderer walk_dir driven by main.                           *)
(*                                                                         *)
(* The file system is a finite tree that does not change during a run.     *)
(* Node 0 is the directory argument; nodes 1..n are the entries beneath    *)
(* it, numbered in the order in which read_dir enumerates them.            *)
(***************************************************************************)
EXTENDS Integers, Sequences, FiniteSets

VARIABLES fs, args, pc, call, stack, out, ret, result

vars == <<fs, args, pc, call, stack, out, ret, result>>

(* ------------------------------ bounds -------------------------------- *)

MaxNodes == 3       \* entries below the root
MaxLen == 2         \* file lengths are 0..MaxLen blocks of LenUnit bytes
MaxMin == 1         \* min_size is 0..MaxMin KB
MaxDepthArg == 1    \* --depth is absent or 0..MaxDepthArg
MaxFail == 1        \* number of failing file-system operations

(* ----------------------------- constants ------------------------------ *)

KB == 1024
MB == KB * 1024
GB == MB * 1024

LenUnit == KB \div 2

\* Option<usize>
Some(v) == [some |-> TRUE, v |-> v]

None == [some |-> FALSE, v |-> 0]

root == 0

(* --------------------------- the file system -------------------------- *)

Nodes == 0 .. fs.n

Ids == [i \in 1 .. fs.n |-> i]

\* fs::metadata(path): Ok unless the lookup of this path fails
metadata_ok(p) == p \notin fs.metaFail

\* fs::read_dir(path): Ok unless the directory cannot be enumerated
read_dir_ok(p) == p \notin fs.readFail

\* the entries read_dir yields for p, in enumeration order
read_dir(p) == SelectSeq(Ids, LAMBDA c : fs.parent[c] = p)

\* one entry_result of the read_dir iterator: Ok unless reading it fails
entry_ok(c) == c \notin fs.entryFail

(* ------------------------------- get_size ------------------------------ *)

Ok(v) == [ok |-> TRUE, val |-> v]

Err == [ok |-> FALSE, val |-> 0]

RECURSIVE get_size(_)
RECURSIVE sum_entries(_, _, _)

\* sum_entries that stops at the first child that fails
sum_entries_break(entries, i, total_size) ==
    IF i > Len(entries) THEN total_size
    ELSE IF entry_ok(entries[i]) /\ get_size(entries[i]).ok
         THEN sum_entries(entries, i + 1, total_size + get_size(entries[i]).val)
         ELSE total_size

\* the for loop of get_size over entries[i..], with total_size so far
sum_entries(entries, i, total_size) ==
    IF i > Len(entries) THEN total_size
    ELSE IF entry_ok(entries[i]) /\ get_size(entries[i]).ok
         THEN sum_entries(entries, i + 1, total_size + get_size(entries[i]).val)
         ELSE sum_entries(entries, i + 1, total_size)

\* get_size that propagates the failure to enumerate the directory
get_size_propagate(path) ==
    IF metadata_ok(path)
    THEN IF fs.is_dir[path]
         THEN IF read_dir_ok(path)
              THEN Ok(sum_entries(read_dir(path), 1, 0))
              ELSE Err
         ELSE Ok(fs.len[path])
    ELSE Err

get_size(path) ==
    IF metadata_ok(path)
    THEN IF fs.is_dir[path]
         THEN IF read_dir_ok(path)
              THEN Ok(sum_entries(read_dir(path), 1, 0))
              ELSE Ok(0)
         ELSE Ok(fs.len[path])
    ELSE Err

(* ------------------------------ format_size ---------------------------- *)

\* x / d rounded to the nearest integer, halves to even: what {:.2} prints
\* of an f64 that holds the quotient exactly (d is a power of two)
RoundDiv(x, d) ==
    LET q == x \div d
        r == x % d
    IN  IF 2 * r > d \/ (2 * r = d /\ q % 2 = 1) THEN q + 1 ELSE q

\* the printed text, as <<hundredths of the unit, unit>> or <<bytes, "B">>
format_size(size) ==
    IF size >= GB THEN <<RoundDiv(size * 100, GB), "GB">>
    ELSE IF size >= MB THEN <<RoundDiv(size * 100, MB), "MB">>
    ELSE IF size >= KB THEN <<RoundDiv(size * 100, KB), "KB">>
    ELSE <<size, "B">>

(* --------------------------------- Init -------------------------------- *)

FileLens == {k * LenUnit : k \in 0 .. MaxLen}

MinSizes == {k * KB : k \in 0 .. MaxMin}

Depths == {None} \cup {Some(d) : d \in 0 .. MaxDepthArg}

\* every entry lies in a directory
WellFormed(n, parent, is_dir) == \A c \in 1 .. n : is_dir[parent[c]]

\* the operations that can fail: the metadata lookup of a path, the
\* enumeration of a directory, the read of one directory entry
FailPoints(n, is_dir) ==
    ({"meta"} \X (0 .. n))
    \cup ({"read"} \X {d \in 0 .. n : is_dir[d]})
    \cup ({"entry"} \X (1 .. n))

RECURSIVE UpTo(_, _)
\* the subsets of S with at most k elements
UpTo(S, k) ==
    IF k = 0 THEN {{}}
    ELSE UpTo(S, k - 1) \cup {A \cup {x} : A \in UpTo(S, k - 1), x \in S}

Failing(F, kind) == {p[2] : p \in {q \in F : q[1] = kind}}

NoArgs == [depth |-> None, min_size |-> 0, sort_name |-> FALSE]

NoCall == [dir |-> root, prefix |-> <<>>, depth |-> 0]

NoRet == [dir |-> root, val |-> "none"]

Init ==
    /\ \E n \in 0 .. MaxNodes :
       \E parent \in [1 .. n -> 0 .. n] :
          /\ \A c \in 1 .. n : parent[c] < c
          /\ \E is_dir \in [0 .. n -> BOOLEAN] :
                /\ WellFormed(n, parent, is_dir)
                /\ \E len \in [0 .. n -> FileLens] :
                      /\ \A d \in 0 .. n : is_dir[d] => len[d] = 0
                      /\ \E name \in [1 .. n -> 1 .. n] :
                            /\ \A c, d \in 1 .. n : c # d => name[c] # name[d]
                            /\ \E F \in UpTo(FailPoints(n, is_dir), MaxFail) :
                                  fs = [n |-> n, parent |-> parent,
                                        is_dir |-> is_dir, len |-> len,
                                        name |-> name,
                                        metaFail |-> Failing(F, "meta"),
                                        readFail |-> Failing(F, "read"),
                                        entryFail |-> Failing(F, "entry")]
    /\ args = NoArgs
    /\ pc = "main"
    /\ call = NoCall
    /\ stack = <<>>
    /\ out = <<>>
    /\ ret = NoRet
    /\ result = "none"

(* --------------------------------- main -------------------------------- *)

Line(kind, path, prefix, last, size) ==
    [kind |-> kind, path |-> path, prefix |-> prefix, last |-> last,
     is_dir |-> fs.is_dir[path], name |-> IF path = root THEN 0 ELSE fs.name[path],
     size |-> size, text |-> format_size(size)]

\* println!("{} ({})", dir.display(), format_size(root_size))
SummaryLine(root_size) == Line("summary", root, <<>>, FALSE, root_size)

\* println!("No entries meet the minimum size criteria.")
NoEntriesLine == [SummaryLine(0) EXCEPT !.kind = "no_entries"]

\* println! of one entry in walk_dir
EntryLine(file, prefix, last) == Line("entry", file.path, prefix, last, file.size)

\* main that also stops when the root's total equals min_size
Main_le ==
    /\ pc = "main"
    /\ \E d \in Depths, m \in MinSizes, s \in BOOLEAN :
          args' = [depth |-> d, min_size |-> m, sort_name |-> s]
    /\ IF ~metadata_ok(root) \/ ~fs.is_dir[root]
       THEN \* !dir.exists() or !dir.is_dir()
            /\ result' = "err"
            /\ pc' = "done"
            /\ UNCHANGED <<out, call>>
       ELSE IF ~get_size(root).ok
       THEN /\ result' = "err"
            /\ pc' = "done"
            /\ UNCHANGED <<out, call>>
       ELSE LET root_size == get_size(root).val
            IN  IF root_size <= args'.min_size
                THEN /\ out' = <<SummaryLine(root_size), NoEntriesLine>>
                     /\ result' = "ok"
                     /\ pc' = "done"
                     /\ UNCHANGED call
                ELSE /\ out' = <<SummaryLine(root_size)>>
                     /\ call' = [dir |-> root, prefix |-> <<>>, depth |-> 0]
                     /\ pc' = "walk_dir"
                     /\ UNCHANGED result
    /\ UNCHANGED <<fs, stack, ret>>

\* main: takes the parsed arguments (--depth, --min-size as a byte count,
\* --sort-name), validates the directory, prints the summary line and either
\* stops or calls walk_dir on the root
Main ==
    /\ pc = "main"
    /\ \E d \in Depths, m \in MinSizes, s \in BOOLEAN :
          args' = [depth |-> d, min_size |-> m, sort_name |-> s]
    /\ IF ~metadata_ok(root) \/ ~fs.is_dir[root]
       THEN \* !dir.exists() or !dir.is_dir()
            /\ result' = "err"
            /\ pc' = "done"
            /\ UNCHANGED <<out, call>>
       ELSE IF ~get_size(root).ok
       THEN /\ result' = "err"
            /\ pc' = "done"
            /\ UNCHANGED <<out, call>>
       ELSE LET root_size == get_size(root).val
            IN  IF root_size < args'.min_size
                THEN /\ out' = <<SummaryLine(root_size), NoEntriesLine>>
                     /\ result' = "ok"
                     /\ pc' = "done"
                     /\ UNCHANGED call
                ELSE /\ out' = <<SummaryLine(root_size)>>
                     /\ call' = [dir |-> root, prefix |-> <<>>, depth |-> 0]
                     /\ pc' = "walk_dir"
                     /\ UNCHANGED result
    /\ UNCHANGED <<fs, stack, ret>>

(* ------------------------------- walk_dir ------------------------------ *)

\* lines 154-166: the entries of dir whose entry_result is Ok
entry_vec(dir) == SelectSeq(read_dir(dir), LAMBDA c : entry_ok(c))

RECURSIVE collect(_, _, _)
\* collect that applies the min_size filter to files only
collect_files_only(entries, i, files) ==
    IF i > Len(entries) THEN files
    ELSE LET path == entries[i]
         IN  IF ~metadata_ok(path) THEN collect(entries, i + 1, files)
             ELSE LET is_dir == fs.is_dir[path]
                      size == IF is_dir
                              THEN IF get_size(path).ok THEN get_size(path).val ELSE 0
                              ELSE fs.len[path]
                  IN  IF ~is_dir /\ size < args.min_size
                      THEN collect(entries, i + 1, files)
                      ELSE collect(entries, i + 1,
                               Append(files, [path |-> path, size |-> size,
                                              is_dir |-> is_dir]))

\* collect that takes a directory's own metadata length as its size
collect_own_len(entries, i, files) ==
    IF i > Len(entries) THEN files
    ELSE LET path == entries[i]
         IN  IF ~metadata_ok(path) THEN collect(entries, i + 1, files)
             ELSE LET is_dir == fs.is_dir[path]
                      size == fs.len[path]
                  IN  IF size < args.min_size
                      THEN collect(entries, i + 1, files)
                      ELSE collect(entries, i + 1,
                               Append(files, [path |-> path, size |-> size,
                                              is_dir |-> is_dir]))

\* collect that drops the entries of size exactly min_size too
collect_strict(entries, i, files) ==
    IF i > Len(entries) THEN files
    ELSE LET path == entries[i]
         IN  IF ~metadata_ok(path) THEN collect(entries, i + 1, files)
             ELSE LET is_dir == fs.is_dir[path]
                      size == IF is_dir
                              THEN IF get_size(path).ok THEN get_size(path).val ELSE 0
                              ELSE fs.len[path]
                  IN  IF size <= args.min_size
                      THEN collect(entries, i + 1, files)
                      ELSE collect(entries, i + 1,
                               Append(files, [path |-> path, size |-> size,
                                              is_dir |-> is_dir]))

\* lines 168-199: the loop that builds files from entries[i..]
collect(entries, i, files) ==
    IF i > Len(entries) THEN files
    ELSE LET path == entries[i]
         IN  IF ~metadata_ok(path) THEN collect(entries, i + 1, files)
             ELSE LET is_dir == fs.is_dir[path]
                      size == IF is_dir
                              THEN IF get_size(path).ok THEN get_size(path).val ELSE 0
                              ELSE fs.len[path]
                  IN  IF size < args.min_size
                      THEN collect(entries, i + 1, files)
                      ELSE collect(entries, i + 1,
                               Append(files, [path |-> path, size |-> size,
                                              is_dir |-> is_dir]))

\* slice::sort_by: a stable sort; less holds the pairs <<a, b>> for which the
\* closure returns Ordering::Less
sort_by(files, less) ==
    LET before(i, j) == <<files[i], files[j]>> \in less
                        \/ (<<files[j], files[i]>> \notin less /\ i < j)
        rank(i) == Cardinality({j \in 1 .. Len(files) : before(j, i)}) + 1
    IN  [k \in 1 .. Len(files) |->
            files[CHOOSE i \in 1 .. Len(files) : rank(i) = k]]

\* the comparison the other way round: ascending sizes
by_size_ascending(a, b) == a.size < b.size

\* |a, b| b.size.cmp(&a.size)
by_size(a, b) == b.size < a.size

\* |a, b| a_name.cmp(&b_name)
by_name(a, b) == fs.name[a.path] < fs.name[b.path]

\* lines 201-210
sorted_files(files) ==
    LET F == {files[i] : i \in 1 .. Len(files)}
    IN  IF ~args.sort_name
        THEN sort_by(files, {p \in F \X F : by_size(p[1], p[2])})
        ELSE sort_by(files, {p \in F \X F : by_name(p[1], p[2])})

\* a return whose error the calling walk_dir passes on instead of discarding
Return_propagate(dir, v, callers) ==
    /\ ret' = [dir |-> dir, val |-> v]
    /\ stack' = IF v = "err" THEN <<>> ELSE callers
    /\ call' = NoCall
    /\ IF callers = <<>> \/ v = "err"
       THEN pc' = "done" /\ result' = "ok"
       ELSE pc' = "loop" /\ UNCHANGED result

\* a return of walk_dir with value v: to main, which discards it and returns
\* Ok(()), or to the loop of the calling walk_dir, which discards it too
Return(dir, v, callers) ==
    /\ ret' = [dir |-> dir, val |-> v]
    /\ stack' = callers
    /\ call' = NoCall
    /\ IF callers = <<>>
       THEN pc' = "done" /\ result' = "ok"
       ELSE pc' = "loop" /\ UNCHANGED result

\* walk_dir whose depth cutoff is current_depth >= max_depth
WalkEnter_ge ==
    /\ pc = "walk_dir"
    /\ IF args.depth.some /\ call.depth >= args.depth.v
       THEN Return(call.dir, "ok", stack)
       ELSE IF ~read_dir_ok(call.dir)
       THEN Return(call.dir, "err", stack)
       ELSE /\ stack' = Append(stack,
                  [dir |-> call.dir, prefix |-> call.prefix, depth |-> call.depth,
                   files |-> sorted_files(collect(entry_vec(call.dir), 1, <<>>)),
                   i |-> 1])
            /\ pc' = "loop"
            /\ call' = NoCall
            /\ UNCHANGED <<ret, result>>
    /\ UNCHANGED <<fs, args, out>>

\* lines 147-210 of a call of walk_dir: the depth cutoff, the enumeration,
\* the collection, the filter and the sort
WalkEnter ==
    /\ pc = "walk_dir"
    /\ IF args.depth.some /\ call.depth > args.depth.v
       THEN Return(call.dir, "ok", stack)
       ELSE IF ~read_dir_ok(call.dir)
       THEN Return(call.dir, "err", stack)
       ELSE /\ stack' = Append(stack,
                  [dir |-> call.dir, prefix |-> call.prefix, depth |-> call.depth,
                   files |-> sorted_files(collect(entry_vec(call.dir), 1, <<>>)),
                   i |-> 1])
            /\ pc' = "loop"
            /\ call' = NoCall
            /\ UNCHANGED <<ret, result>>
    /\ UNCHANGED <<fs, args, out>>

Top == stack[Len(stack)]

\* an iteration that does not move on to the next entry
WalkPrint_again ==
    /\ pc = "loop"
    /\ Top.i <= Len(Top.files)
    /\ LET file == Top.files[Top.i]
           is_last_entry == Top.i = Len(Top.files)
       IN  /\ out' = Append(out, EntryLine(file, Top.prefix, is_last_entry))
           /\ stack' = [stack EXCEPT ![Len(stack)].i =
                            IF Len(out) < MaxNodes + 2 /\ ~file.is_dir
                            THEN Top.i ELSE Top.i + 1]
           /\ IF file.is_dir
              THEN /\ call' = [dir |-> file.path,
                               prefix |-> Append(Top.prefix, is_last_entry),
                               depth |-> Top.depth + 1]
                   /\ pc' = "walk_dir"
              ELSE UNCHANGED <<call, pc>>
    /\ UNCHANGED <<fs, args, ret, result>>

\* lines 213-253: one iteration of the loop over files: prints the entry and,
\* for a directory, calls walk_dir on it with current_depth + 1
WalkPrint ==
    /\ pc = "loop"
    /\ Top.i <= Len(Top.files)
    /\ LET file == Top.files[Top.i]
           is_last_entry == Top.i = Len(Top.files)
       IN  /\ out' = Append(out, EntryLine(file, Top.prefix, is_last_entry))
           /\ stack' = [stack EXCEPT ![Len(stack)].i = Top.i + 1]
           /\ IF file.is_dir
              THEN /\ call' = [dir |-> file.path,
                               prefix |-> Append(Top.prefix, is_last_entry),
                               depth |-> Top.depth + 1]
                   /\ pc' = "walk_dir"
              ELSE UNCHANGED <<call, pc>>
    /\ UNCHANGED <<fs, args, ret, result>>

\* line 256: the loop is over, walk_dir returns Ok(())
WalkReturn ==
    /\ pc = "loop"
    /\ Top.i > Len(Top.files)
    /\ Return(Top.dir, "ok", SubSeq(stack, 1, Len(stack) - 1))
    /\ UNCHANGED <<fs, args, out>>

Next == Main \/ WalkEnter \/ WalkPrint \/ WalkReturn

Spec == Init /\ [][Next]_vars

(* ----------------------- vocabulary of the claims ---------------------- *)

RECURSIVE Anc(_)
\* the directories above an entry, the root included
Anc(p) == IF p = root THEN {} ELSE {fs.parent[p]} \cup Anc(fs.parent[p])

\* the depth of a node: the root is 0, its entries are 1
Depth(p) == Cardinality(Anc(p))

Below(d) == {x \in Nodes : d \in Anc(x)}

RECURSIVE SetSum(_)
\* the sum of the byte lengths of a set of files
SetSum(S) ==
    IF S = {} THEN 0
    ELSE LET x == CHOOSE y \in S : TRUE IN fs.len[x] + SetSum(S \ {x})

\* the nodes on the way from d down to f, d excluded and f included
Way(d, f) == {f} \cup (Anc(f) \ ({d} \cup Anc(d)))

\* the files beneath d that can be inspected from d: every node on the way
\* has a readable directory entry and metadata, every directory on the way,
\* d included, can be enumerated
Inspectable(d) ==
    {f \in Below(d) :
        /\ ~fs.is_dir[f]
        /\ \A x \in Way(d, f) : metadata_ok(x) /\ entry_ok(x)
        /\ \A x \in (Way(d, f) \cup {d}) \ {f} : read_dir_ok(x)}

\* the size of an entry: a file's byte length, a directory's inspectable bytes
EntrySize(p) == IF fs.is_dir[p] THEN SetSum(Inspectable(p)) ELSE fs.len[p]

EntryLines == {i \in 1 .. Len(out) : out[i].kind = "entry"}

Printed == {out[i].path : i \in EntryLines}

HasFailure == fs.metaFail # {} \/ fs.readFail # {} \/ fs.entryFail # {}

ValidRoot == metadata_ok(root) /\ fs.is_dir[root]

Started == pc # "main"

\* the entries of directory d that walk_dir keeps: readable entry, metadata,
\* size at least min_size
Surviving(d) ==
    {c \in 1 .. fs.n :
        /\ fs.parent[c] = d /\ read_dir_ok(d)
        /\ entry_ok(c) /\ metadata_ok(c)
        /\ EntrySize(c) >= args.min_size}

Finished == pc = "done" /\ result = "ok"

\* the statement of C1 as written: with max_depth = 0 no entry line is printed
C1_DepthZeroPrintsNoEntry == args.depth = Some(0) => EntryLines = {}

\* C1 (amended): with max_depth = 0 walk_dir lists the root's immediate
\* entries that pass the filter and nothing deeper: the call on each listed
\* directory, at current_depth 1, returns at once.
C1_DepthZeroListsOnlyRootEntries ==
    args.depth = Some(0) =>
        /\ \A i \in EntryLines : fs.parent[out[i].path] = root /\ out[i].prefix = <<>>
        /\ Len(stack) <= 1
        /\ (Finished /\ EntrySize(root) >= args.min_size) => Printed = Surviving(root)

\* a run with max_depth = 0 that printed a directory of the root and left out
\* the file inside it
C1_Witness ==
    /\ Finished /\ args.depth = Some(0)
    /\ \E i \in EntryLines : \E f \in Below(out[i].path) :
          EntrySize(f) >= args.min_size /\ f \notin Printed /\ fs.len[f] > 0

\* C2: walk_dir never prints an entry whose size is below min_size and never
\* descends into such a directory; the filter looks at the entry's own size
\* only, so an entry of size >= min_size is kept whatever happens to its
\* children.
C2_FilterBySize ==
    /\ \A i \in EntryLines : EntrySize(out[i].path) >= args.min_size
    /\ \A k \in 1 .. Len(stack) :
          /\ EntrySize(stack[k].dir) >= args.min_size
          /\ {stack[k].files[j].path : j \in 1 .. Len(stack[k].files)}
                = Surviving(stack[k].dir)
    /\ pc = "walk_dir" => EntrySize(call.dir) >= args.min_size

\* a directory is printed and listed although every entry in it is filtered out
C2_Witness ==
    /\ Finished /\ args.min_size > 0
    /\ \E i \in EntryLines :
          /\ \E f \in Below(out[i].path) : fs.len[f] > 0
          /\ Below(out[i].path) \cap Printed = {}
          /\ ~args.depth.some

\* C3: get_size of a directory is the sum of the byte lengths of all
\* inspectable files beneath it (0 for an empty directory); a child whose
\* get_size fails adds 0 and the siblings after it are still summed.
C3_GetSizeIsSumOfInspectableFiles ==
    \A p \in Nodes :
        metadata_ok(p) =>
            /\ get_size(p) = Ok(EntrySize(p))
            /\ (fs.is_dir[p] /\ Below(p) = {}) => get_size(p) = Ok(0)
            /\ Started /\ ValidRoot => out[1].size = EntrySize(root)

\* a failing child of the root is followed by a sibling file that is counted
C3_Witness ==
    /\ Started /\ ValidRoot
    /\ \E c, d \in 1 .. fs.n :
          /\ c < d /\ fs.parent[c] = root /\ fs.parent[d] = root
          /\ ~metadata_ok(c) /\ ~fs.is_dir[c] /\ fs.len[c] > 0
          /\ ~fs.is_dir[d] /\ fs.len[d] > 0
          /\ out[1].size = fs.len[d]

\* C4: get_size(path) fails if and only if the metadata lookup of path itself
\* fails; failures below path never make it fail, and a directory that cannot
\* be enumerated has total 0.
C4_GetSizeFailsOnlyOnOwnMetadata ==
    \A p \in Nodes :
        /\ get_size(p).ok <=> metadata_ok(p)
        /\ (metadata_ok(p) /\ fs.is_dir[p] /\ ~read_dir_ok(p)) => get_size(p) = Ok(0)

\* a directory below the root cannot be enumerated although it holds bytes:
\* it is listed with size 0 and the call on the root succeeded
C4_Witness ==
    /\ pc = "done" /\ result = "ok"
    /\ \E i \in EntryLines :
          /\ ~read_dir_ok(out[i].path)
          /\ \E f \in Below(out[i].path) : fs.len[f] > 0
          /\ out[i].size = 0

Siblings(i, j) ==
    /\ i \in EntryLines /\ j \in EntryLines /\ i < j
    /\ fs.parent[out[i].path] = fs.parent[out[j].path]

\* the statement of C5 as written: strictly descending sizes, ascending names
C5_StrictlyDescending ==
    \A i, j \in 1 .. Len(out) :
        Siblings(i, j) =>
            IF args.sort_name THEN out[i].name < out[j].name
            ELSE out[i].size > out[j].size

\* C5 (amended): in every listing the siblings are printed in non-increasing
\* size order by default, siblings of equal size in their enumeration order,
\* and in ascending name order with --sort-name.
C5_SortedListing ==
    \A i, j \in 1 .. Len(out) :
        Siblings(i, j) =>
            IF args.sort_name THEN out[i].name < out[j].name
            ELSE \/ out[i].size > out[j].size
                 \/ out[i].size = out[j].size /\ out[i].path < out[j].path

\* a default-mode listing with two siblings of equal size and a larger one
\* that was enumerated after them
C5_Witness ==
    /\ Finished /\ ~args.sort_name
    /\ \E i, j, k \in 1 .. Len(out) :
          /\ Siblings(k, i) /\ Siblings(i, j)
          /\ out[i].size = out[j].size
          /\ out[k].size > out[i].size /\ out[k].path > out[j].path

\* C6: for a valid root main prints the summary line with the root's total
\* first; below min_size it prints the no-entries line and nothing else and
\* never calls walk_dir; otherwise that line is never printed and walk_dir is
\* called; main returns success either way.
C6_SummaryThenListingOrMessage ==
    (ValidRoot /\ Started) =>
        /\ out[1] = SummaryLine(EntrySize(root))
        /\ \A i \in 2 .. Len(out) : out[i].kind # "summary"
        /\ IF EntrySize(root) < args.min_size
           THEN /\ out = <<SummaryLine(EntrySize(root)), NoEntriesLine>>
                /\ pc = "done" /\ ret = NoRet /\ stack = <<>>
           ELSE /\ \A i \in 1 .. Len(out) : out[i].kind # "no_entries"
                /\ \A i \in 2 .. Len(out) : out[i].kind = "entry"
                /\ pc = "walk_dir" \/ stack # <<>> \/ ret.val # "none"
        /\ pc = "done" => result = "ok" /\ stack = <<>>

\* a run on a root that holds bytes, all below min_size
C6_Witness ==
    /\ ValidRoot /\ pc = "done" /\ Len(out) = 2 /\ out[2].kind = "no_entries"
    /\ out[1].size > 0 /\ fs.n > 0

\* C7: the size printed next to a directory is get_size of it, the size
\* printed next to a file is its byte length, whatever max_depth, min_size
\* and the sort mode are and whether or not its contents are listed.
C7_PrintedSizeIsFullSize ==
    \A i \in EntryLines :
        LET p == out[i].path
        IN  /\ out[i].is_dir => get_size(p) = Ok(out[i].size)
            /\ ~out[i].is_dir => out[i].size = fs.len[p]
            /\ out[i].size = EntrySize(p)
            /\ out[i].text = format_size(EntrySize(p))

\* a directory holding bytes is printed with its full size while the depth
\* cutoff keeps its contents out of the listing
C7_Witness ==
    /\ Finished /\ args.depth.some
    /\ \E i \in EntryLines :
          /\ out[i].is_dir /\ out[i].size >= KB
          /\ Surviving(out[i].path) # {}
          /\ Below(out[i].path) \cap Printed = {}

\* the listing of directory d is within the depth limit: walk_dir is called
\* on d with current_depth = Depth(d)
DepthOk(d) == args.depth.some => Depth(d) <= args.depth.v

\* x can be reached from the root: no failure on the way to it
Accessible(x) ==
    /\ \A y \in Way(root, x) : metadata_ok(y) /\ entry_ok(y)
    /\ \A y \in Anc(x) : read_dir_ok(y)

\* x can be reached and nothing fails at x or beneath it
Clean(x) ==
    /\ Accessible(x)
    /\ \A y \in {x} \cup Below(x) : metadata_ok(y) /\ entry_ok(y) /\ read_dir_ok(y)

\* the size of x in the same tree without any failure
TotalLen(x) == SetSum({f \in {x} \cup Below(x) : ~fs.is_dir[f]})

LineOf(x) == CHOOSE i \in EntryLines : out[i].path = x

PreOrder ==
    /\ \A i, j \in EntryLines : out[i].path = out[j].path => i = j
    /\ \A j \in EntryLines :
          LET p == fs.parent[out[j].path]
          IN  p # root => \E i \in EntryLines : out[i].path = p /\ i < j
    /\ \A i, j, k \in EntryLines :
          (/\ out[i].path \in Anc(out[j].path)
           /\ out[i].path \notin Anc(out[k].path)
           /\ i < k) => j < k
    /\ \A i \in EntryLines :
          (out[i].is_dir /\ ~DepthOk(out[i].path)) =>
              Below(out[i].path) \cap Printed = {}
    /\ Finished =>
          \A i \in EntryLines :
              (out[i].is_dir /\ DepthOk(out[i].path)) =>
                  Surviving(out[i].path) \subseteq Printed

\* the work left: the entries not printed yet, the pending call, the open
\* calls of walk_dir
Rank ==
    IF pc = "main" THEN 3 * fs.n + 3
    ELSE IF pc = "done" THEN 0
    ELSE 3 * Cardinality((1 .. fs.n) \ Printed)
         + (IF pc = "walk_dir" THEN 2 ELSE 0) + Len(stack)

\* the program is never stuck before it is done; WalkEnter has no guard but
\* pc = "walk_dir"
CanStep ==
    pc # "done" => (pc = "walk_dir" \/ ENABLED (Main \/ WalkPrint \/ WalkReturn))

\* C9: walk_dir terminates (every step takes away from a bounded amount of
\* work left, and a step is possible until main is done), and prints in
\* pre-order with each entry printed at most once: a directory before its
\* descendants, a directory's whole subtree before its next sibling, a branch
\* ending only at a file, at a directory with no surviving entry or where
\* current_depth > max_depth.
C9_TerminatesInPreOrder ==
    [](PreOrder /\ CanStep /\ Rank >= 0) /\ [][Rank' < Rank]_vars

\* a finished run that printed a directory, the file in it, and then the
\* directory's sibling
C9_Witness ==
    /\ Finished
    /\ \E i, j, k \in EntryLines :
          /\ i < j /\ j < k
          /\ fs.parent[out[j].path] = out[i].path
          /\ fs.parent[out[k].path] = fs.parent[out[i].path]

RECURSIVE LineSum(_)
\* the sum of the sizes printed on a set of lines
LineSum(I) ==
    IF I = {} THEN 0
    ELSE LET i == CHOOSE j \in I : TRUE IN out[i].size + LineSum(I \ {i})

\* the lines of the entries listed for the directory of line i
ListedIn(i) == {j \in EntryLines : fs.parent[out[j].path] = out[i].path}

\* what C10 says of the sets and of the inequality
C10_Common ==
    /\ \A x \in 1 .. fs.n : \A a \in Anc(x) : EntrySize(a) >= EntrySize(x)
    /\ \A i, j \in EntryLines : out[i].path = out[j].path => i = j
    /\ Printed \subseteq
          {x \in 1 .. fs.n : EntrySize(x) >= args.min_size /\ DepthOk(fs.parent[x])}
    /\ Finished =>
          /\ Printed =
                {x \in 1 .. fs.n :
                    EntrySize(x) >= args.min_size /\ DepthOk(fs.parent[x])}
          /\ \A i \in 1 .. Len(out) :
                out[i].kind # "no_entries" => out[i].size >= LineSum(ListedIn(i))

\* the statement of C10 as written: with min_size = 0 the size printed for a
\* directory equals the sum of the sizes printed for its listed entries
C10_SumEqualWithoutFilter ==
    (~HasFailure /\ ValidRoot /\ Started) =>
        /\ C10_Common
        /\ (Finished /\ args.min_size = 0) =>
              \A i \in 1 .. Len(out) :
                  out[i].is_dir => out[i].size = LineSum(ListedIn(i))

\* C10 (amended): on a fully readable tree every entry of size >= min_size
\* has all its ancestors of size >= min_size; the printed entries are exactly
\* the entries of size >= min_size lying in a directory of depth <= max_depth,
\* each printed once; the size printed for a directory is >= the sum of the
\* sizes printed for its listed entries, and equal to it when min_size = 0
\* and the directory's depth is <= max_depth.
C10_PrintedSetAndSums ==
    (~HasFailure /\ ValidRoot /\ Started) =>
        /\ C10_Common
        /\ (Finished /\ args.min_size = 0) =>
              \A i \in 1 .. Len(out) :
                  (out[i].is_dir /\ DepthOk(out[i].path)) =>
                      out[i].size = LineSum(ListedIn(i))

\* a finished run without filter that listed a directory holding bytes and,
\* under a directory at the depth limit, nothing
C10_Witness ==
    /\ ~HasFailure /\ Finished /\ args.min_size = 0
    /\ \E i \in EntryLines :
          /\ out[i].is_dir /\ out[i].size > 0 /\ ListedIn(i) = {}
    /\ ListedIn(1) # {} /\ out[1].size = LineSum(ListedIn(1))

====
